---- MODULE Spec2Model ----
(***************************************************************************)
(* Tag synchronisation of sync/fromDisk/tags.js: the duplicate detector    *)
(* getDuplicates, the legacy entry point sync(courseInfo, questionDB) and  *)
(* the current entry point syncNew(courseId, courseData, questionIds).     *)
(* The stored procedures are external: what they return is a              *)
(* nondeterministic choice, and every call made to them is logged.         *)
(***************************************************************************)
EXTENDS Naturals, Sequences, FiniteSets, TLC

VARIABLES
    mode,          \* which entry point this behaviour exercises
    pc,            \* position of the invocation (which await it is parked on)
    run,           \* 1 for the first invocation of sync, 2 for the repeated one
    courseInfo,    \* sync: the caller's courseInfo object (mutated by tags.push)
    questionDB,    \* sync: the question map, in property (iteration) order
    courseData,    \* syncNew: [course, questions], each item with its errors flag
    declared,      \* sync: the local tags as read at line 22, before the push
    paramTags,     \* sync: the local paramTags of the running invocation
    tagIdsByName,  \* the name -> id lookup built from the first procedure's result
    calls,         \* every sqldb call made so far, in order
    res,           \* what the first procedure returned (new_tag_ids / new_tags_json)
    err,           \* the error the invocation was rejected with, if any
    arr,           \* getDuplicates: the argument
    dups           \* getDuplicates: the returned array

vars == <<mode, pc, run, courseInfo, questionDB, courseData, declared, paramTags,
          tagIdsByName, calls, res, err, arr, dups>>

-----------------------------------------------------------------------------
(* Bounds of the model *)

\* declared tags in courseInfo.tags / courseData.course.data.tags
MaxTags == 2
\* tag references over all questions of a question map
MaxRefs == 3
\* length of the array handed to getDuplicates on its own
MaxLen == 4

\* Tag names. "constructor" and "__proto__" are ordinary strings as far as the
\* course files go; they are also properties every plain JS object inherits.
Names == {"x", "y", "constructor", "__proto__"}
\* names used by the syncNew runs (Set and Map have no inherited keys)
NewNames == {"x", "constructor"}
\* property names of the question maps, in insertion order
Qids == <<"q1", "q2">>

SeqsUpTo(S, n) == UNION {[1..k -> S] : k \in 0..n}

Range(s) == {s[i] : i \in DOMAIN s}

RECURSIVE SelectSeqBy(_, _)
\* Array.prototype.filter with a predicate given as the set of kept values
SelectSeqBy(s, keep) ==
    IF s = <<>> THEN <<>>
    ELSE (IF Head(s) \in keep THEN <<Head(s)>> ELSE <<>>) \o SelectSeqBy(Tail(s), keep)

-----------------------------------------------------------------------------
(* Plain JS objects used as dictionaries ({}), as tags.js uses them *)

Undefined == "undefined"
True == "true"
\* what obj[k] evaluates to when k is inherited from Object.prototype
Inherited(k) == "Object.prototype." \o k
ObjectPrototypeKeys == {"constructor", "__proto__"}

\* {}
EmptyObject == [k \in {} |-> Undefined]

\* obj[k]
JsGet(obj, k) ==
    IF k \in DOMAIN obj THEN obj[k]
    ELSE IF k \in ObjectPrototypeKeys THEN Inherited(k)
    ELSE Undefined

\* obj[k] = v, v a primitive: assigning a primitive to __proto__ is ignored
JsSet(obj, k, v) ==
    IF k = "__proto__" THEN obj
    ELSE [x \in DOMAIN obj \cup {k} |-> IF x = k THEN v ELSE obj[x]]

\* k in obj
JsIn(k, obj) == k \in DOMAIN obj \cup ObjectPrototypeKeys

Truthy(v) == v # Undefined

\* JSON.stringify of a value inside an array: undefined and functions become
\* null, Object.prototype (no own enumerable property) becomes {}
JsonValue(v) ==
    IF v = Undefined \/ v = Inherited("constructor") THEN "null"
    ELSE IF v = Inherited("__proto__") THEN "{}"
    ELSE v

-----------------------------------------------------------------------------
(* getDuplicates, getDuplicatesByKey *)

RECURSIVE FilterSeen(_, _)
\* arr.filter(v => { present = seen[v]; seen[v] = true; return present })
FilterSeen(a, seen) ==
    IF a = <<>> THEN <<>>
    ELSE LET v == Head(a)
             present == JsGet(seen, v)
         IN  (IF Truthy(present) THEN <<v>> ELSE <<>>)
                 \o FilterSeen(Tail(a), JsSet(seen, v, True))

getDuplicates(a) == FilterSeen(a, EmptyObject)

getDuplicatesByKey(a, key) == getDuplicates([i \in DOMAIN a |-> a[i][key]])

-----------------------------------------------------------------------------
(* Values shared by both entry points *)

NoError == [kind |-> "none", qid |-> "", names |-> <<>>]
Error(kind, qid, names) == [kind |-> kind, qid |-> qid, names |-> names]

CourseId == "course1"

\* a tag as declared in the course file
DeclaredTag(n) == [name |-> n, color |-> "blue1", description |-> "d"]

DeclaredTagLists(names) ==
    {[i \in DOMAIN s |-> DeclaredTag(s[i])] : s \in SeqsUpTo(names, MaxTags)}

RECURSIVE SumLen(_)
SumLen(ss) == IF ss = <<>> THEN 0 ELSE Len(Head(ss)) + SumLen(Tail(ss))

\* the tag lists of the questions of a question map, one per property
QuestionTagLists(names) ==
    UNION {{ts \in [1..k -> SeqsUpTo(names, MaxRefs)] : SumLen(ts) <= MaxRefs}
              : k \in 0..Len(Qids)}

\* database ids are bigints, which node-postgres hands over as strings
IdAt(i) == ToString(100 + i)

-----------------------------------------------------------------------------
(* sync(courseInfo, questionDB, callback) *)

\* question.id of the question stored under qid
QuestionRowId(qid) == "row_" \o qid

QuestionDBs ==
    {[i \in DOMAIN ts |-> [qid |-> Qids[i], id |-> QuestionRowId(Qids[i]), tags |-> ts[i]]]
        : ts \in QuestionTagLists(Names)}

CourseInfos ==
    {[hasTags |-> FALSE, tags |-> <<>>, courseId |-> CourseId]}
        \cup {[hasTags |-> TRUE, tags |-> t, courseId |-> CourseId]
                 : t \in DeclaredTagLists(Names)}

\* const tags = courseInfo.tags || []
TagsOf(ci) == IF ci.hasTags THEN ci.tags ELSE <<>>

PlaceholderDescription ==
    "Auto-generated from use in a question; add this tag to your courseInfo.json file to customize"

Placeholder(name) ==
    [name |-> name, color |-> "gray1", description |-> PlaceholderDescription]

RECURSIVE AllQuestionTagNames(_)
\* Object.values(questionDB).forEach(q => questionTagNames.push(...(q.tags || [])))
AllQuestionTagNames(qdb) ==
    IF qdb = <<>> THEN <<>> ELSE Head(qdb).tags \o AllQuestionTagNames(Tail(qdb))

\* questionTagNames.filter(name => !knownTagNames.has(name))
MissingTagNames(tags, qdb) ==
    LET knownTagNames == {tags[i].name : i \in DOMAIN tags}
    IN  SelectSeqBy(AllQuestionTagNames(qdb), Names \ knownTagNames)

\* tags.push(...missingTagNames.map(name => ({name, color, description})))
WithPlaceholders(tags, qdb) ==
    LET missing == MissingTagNames(tags, qdb)
    IN  tags \o [i \in DOMAIN missing |-> Placeholder(missing[i])]

\* tags.map(tag => [tag.name, tag.color, tag.description])
EncodeTags(tags) ==
    [i \in DOMAIN tags |-> <<tags[i].name, tags[i].color, tags[i].description>>]

RECURSIVE ReduceTagIds(_, _, _, _)
\* new_tag_ids.reduce((acc, id, index) => { acc[paramTags[index][0]] = id; ... }, {})
ReduceTagIds(ids, index, pt, acc) ==
    IF index > Len(ids) THEN acc
    ELSE ReduceTagIds(ids, index + 1, pt, JsSet(acc, pt[index][1], ids[index]))

\* tags.filter(tag => !(tag in tagIdsByName))
UnknownTags(tags, map) == SelectSeqBy(tags, {n \in Names : ~JsIn(n, map)})

\* [question.id, tags.map(tag => tagIdsByName[tag])], as JSON.stringify writes it
EncodeQuestionTags(question, map) ==
    <<question.id, [i \in DOMAIN question.tags |-> JsonValue(JsGet(map, question.tags[i]))]>>

RECURSIVE QuestionLoopNoDuplicateCheck(_, _, _)
\* QuestionLoop without lines 87-90
QuestionLoopNoDuplicateCheck(qdb, map, acc) ==
    IF qdb = <<>> THEN [err |-> NoError, param |-> acc]
    ELSE LET question == Head(qdb)
             unknownTags == UnknownTags(question.tags, map)
         IN  IF unknownTags # <<>>
               THEN [err |-> Error("UnknownTags", question.qid, unknownTags), param |-> acc]
             ELSE QuestionLoopNoDuplicateCheck(Tail(qdb), map,
                                               Append(acc, EncodeQuestionTags(question, map)))

RECURSIVE QuestionLoop(_, _, _)
\* for (const qid in questionDB) { ... }: the first throw ends the loop
QuestionLoop(qdb, map, acc) ==
    IF qdb = <<>> THEN [err |-> NoError, param |-> acc]
    ELSE LET question == Head(qdb)
             unknownTags == UnknownTags(question.tags, map)
             duplicateTags == getDuplicates(question.tags)
         IN  IF unknownTags # <<>>
               THEN [err |-> Error("UnknownTags", question.qid, unknownTags), param |-> acc]
             ELSE IF duplicateTags # <<>>
               THEN [err |-> Error("DuplicateTags", question.qid, duplicateTags), param |-> acc]
             ELSE QuestionLoop(Tail(qdb), map, Append(acc, EncodeQuestionTags(question, map)))

\* what sync_course_tags may return for k ids: fresh ids, or one id per name
NewTagIds(pt, k, perName) ==
    [i \in 1..k |->
        IF perName /\ i <= Len(pt)
          THEN IdAt(CHOOSE j \in 1..i : pt[j][1] = pt[i][1] /\ \A h \in 1..(j-1) : pt[h][1] # pt[i][1])
          ELSE IdAt(i)]

Call(proc, args) == [proc |-> proc, run |-> run, args |-> args]

InitSync ==
    /\ mode = "sync"
    /\ pc = "start"
    /\ run = 1
    /\ courseInfo \in CourseInfos
    /\ questionDB \in QuestionDBs
    /\ courseData = [course |-> [errors |-> FALSE, tags |-> <<>>], questions |-> <<>>]
    /\ declared = <<>>
    /\ paramTags = <<>>
    /\ tagIdsByName = EmptyObject
    /\ calls = <<>>
    /\ res = <<>>
    /\ err = NoError
    /\ arr = <<>>
    /\ dups = <<>>

\* lines 22-63: the duplicate-name check, the placeholders, the first call
SyncStart ==
    /\ mode = "sync" /\ pc = "start"
    /\ LET tags == TagsOf(courseInfo)
           duplicateNames == getDuplicatesByKey(tags, "name")
           allTags == WithPlaceholders(tags, questionDB)
       IN  /\ declared' = tags
           /\ IF Len(duplicateNames) > 0
                THEN /\ err' = Error("DuplicateTagNames", "", duplicateNames)
                     /\ pc' = "failed"
                     /\ UNCHANGED <<courseInfo, paramTags, calls>>
                ELSE /\ courseInfo' = IF courseInfo.hasTags
                                        THEN [courseInfo EXCEPT !.tags = allTags]
                                        ELSE courseInfo
                     /\ paramTags' = EncodeTags(allTags)
                     /\ calls' = Append(calls, Call("sync_course_tags",
                                                    <<EncodeTags(allTags), courseInfo.courseId>>))
                     /\ pc' = "sync_course_tags"
                     /\ err' = err
    /\ UNCHANGED <<mode, run, questionDB, courseData, tagIdsByName, res, arr, dups>>

\* lines 63-94: sync_course_tags returned k ids; build the map, walk the
\* questions, make the second call
SyncCourseTagsReturn ==
    /\ mode = "sync" /\ pc = "sync_course_tags"
    /\ \E k \in 0..(Len(paramTags) + 1), perName \in BOOLEAN :
         LET ids == NewTagIds(paramTags, k, perName)
         IN  /\ res' = ids
             /\ IF k > Len(paramTags)
               \* paramTags[index] is undefined: paramTags[index][0] throws
               THEN /\ err' = Error("TypeError", "", <<>>)
                    /\ pc' = "failed"
                    /\ UNCHANGED <<tagIdsByName, calls>>
               ELSE LET map == ReduceTagIds(ids, 1, paramTags, EmptyObject)
                        loop == QuestionLoop(questionDB, map, <<>>)
                    IN  /\ tagIdsByName' = map
                        /\ IF loop.err # NoError
                             THEN /\ err' = loop.err
                                  /\ pc' = "failed"
                                  /\ calls' = calls
                             ELSE /\ calls' = Append(calls, Call("sync_question_tags",
                                                                 <<loop.param>>))
                                  /\ pc' = "sync_question_tags"
                                  /\ err' = err
    /\ UNCHANGED <<mode, run, courseInfo, questionDB, courseData, declared, paramTags, arr, dups>>

\* sqldb.callAsync rejects: the error is passed through
SyncCallFails ==
    /\ mode = "sync" /\ pc \in {"sync_course_tags", "sync_question_tags"}
    /\ err' = Error("PropagatedError", "", <<>>)
    /\ pc' = "failed"
    /\ UNCHANGED <<mode, run, courseInfo, questionDB, courseData, declared, paramTags,
                   tagIdsByName, calls, res, arr, dups>>

\* line 94: the second call resolved, the callback is called without error
SyncQuestionTagsReturn ==
    /\ mode = "sync" /\ pc = "sync_question_tags"
    /\ pc' = "done"
    /\ UNCHANGED <<mode, run, courseInfo, questionDB, courseData, declared, paramTags,
                   tagIdsByName, calls, res, err, arr, dups>>

\* the caller invokes sync again with the same courseInfo and questionDB
SyncAgain ==
    /\ mode = "sync" /\ pc \in {"done", "failed"} /\ run = 1
    /\ run' = 2
    /\ pc' = "start"
    /\ err' = NoError
    /\ paramTags' = <<>>
    /\ tagIdsByName' = EmptyObject
    /\ res' = <<>>
    /\ UNCHANGED <<mode, courseInfo, questionDB, courseData, declared, calls, arr, dups>>

NextSync ==
    \/ SyncStart
    \/ SyncCourseTagsReturn
    \/ SyncCallFails
    \/ SyncQuestionTagsReturn
    \/ SyncAgain

SpecSync == InitSync /\ [][NextSync]_vars

-----------------------------------------------------------------------------
(* syncNew(courseId, courseData, questionIds) *)

\* questionIds[qid]
questionIds(qid) == "id_" \o qid

CourseDatas ==
    {[course |-> [errors |-> e, tags |-> t],
      questions |-> [i \in DOMAIN ts |-> [qid |-> Qids[i], errors |-> es[i], tags |-> ts[i]]]]
        : e \in BOOLEAN, t \in DeclaredTagLists(NewNames),
          ts \in QuestionTagLists(NewNames), es \in [1..Len(Qids) -> BOOLEAN]}

\* infofile.hasErrors(item)
hasErrors(item) == item.errors

RECURSIVE SetAddAll(_, _)
\* ts.forEach(t => set.add(t)); a Set is iterated in insertion order
SetAddAll(set, ts) ==
    IF ts = <<>> THEN set
    ELSE SetAddAll(IF Head(ts) \in Range(set) THEN set ELSE Append(set, Head(ts)), Tail(ts))

\* EncodeCourseTags without the hasErrors test of line 126
EncodeCourseTagsAlways(course) ==
    [i \in DOMAIN course.tags |->
        <<course.tags[i].name, course.tags[i].description, course.tags[i].color>>]

\* courseData.course.data.tags.map(t => JSON.stringify([t.name, t.description, t.color]))
EncodeCourseTags(course) ==
    IF ~hasErrors(course)
      THEN [i \in DOMAIN course.tags |->
               <<course.tags[i].name, course.tags[i].description, course.tags[i].color>>]
      ELSE <<>>

RECURSIVE KnownQuestionTagsNamesOfAll(_, _)
\* KnownQuestionTagsNames without the hasErrors test of line 137
KnownQuestionTagsNamesOfAll(questions, set) ==
    IF questions = <<>> THEN set
    ELSE KnownQuestionTagsNamesOfAll(Tail(questions), SetAddAll(set, Head(questions).tags))

RECURSIVE KnownQuestionTagsNames(_, _)
\* tag names of the questions without errors, lines 135-141
KnownQuestionTagsNames(questions, set) ==
    IF questions = <<>> THEN set
    ELSE KnownQuestionTagsNames(Tail(questions),
                                IF ~hasErrors(Head(questions))
                                  THEN SetAddAll(set, Head(questions).tags)
                                  ELSE set)

\* new Map(); map.get(k) is undefined for a key that was never set
MapGet(map, k) == IF k \in DOMAIN map THEN map[k] ELSE Undefined
MapSet(map, k, v) == [x \in DOMAIN map \cup {k} |-> IF x = k THEN v ELSE map[x]]

RECURSIVE ReduceNewTags(_, _)
\* newTags.reduce((acc, [name, id]) => { acc.set(name, id); return acc; }, new Map())
ReduceNewTags(newTags, acc) ==
    IF newTags = <<>> THEN acc
    ELSE ReduceNewTags(Tail(newTags), MapSet(acc, Head(newTags)[1], Head(newTags)[2]))

\* EncodeQuestionTagsNew mapping question.data.tags itself, not the Set of line 164
EncodeQuestionTagsNewNoSet(question, map) ==
    <<questionIds(question.qid),
      [i \in DOMAIN question.tags |-> JsonValue(MapGet(map, question.tags[i]))]>>

\* JSON.stringify([questionIds[qid], questionTagIds]) of one question
EncodeQuestionTagsNew(question, map) ==
    LET dedupedQuestionTagNames == SetAddAll(<<>>, question.tags)
    IN  <<questionIds(question.qid),
          [i \in DOMAIN dedupedQuestionTagNames |->
              JsonValue(MapGet(map, dedupedQuestionTagNames[i]))]>>

RECURSIVE QuestionTagsParam(_, _)
\* Object.entries(courseData.questions).forEach(...), lines 160-168
QuestionTagsParam(questions, map) ==
    IF questions = <<>> THEN <<>>
    ELSE (IF hasErrors(Head(questions)) THEN <<>>
          ELSE <<EncodeQuestionTagsNew(Head(questions), map)>>)
             \o QuestionTagsParam(Tail(questions), map)

\* what sync_course_tags_new may return: [name, id] pairs for the names it was
\* sent, except those of `dropped`
NewTagsJson(params, dropped) ==
    LET sent == SetAddAll([i \in DOMAIN params[2] |-> params[2][i][1]], params[3])
        kept == SelectSeqBy(sent, Range(sent) \ dropped)
    IN  [i \in DOMAIN kept |-> <<kept[i], IdAt(i)>>]

InitNew ==
    /\ mode = "syncNew"
    /\ pc = "start"
    /\ run = 1
    /\ courseInfo = [hasTags |-> FALSE, tags |-> <<>>, courseId |-> CourseId]
    /\ questionDB = <<>>
    /\ courseData \in CourseDatas
    /\ declared = <<>>
    /\ paramTags = <<>>
    /\ tagIdsByName = EmptyObject
    /\ calls = <<>>
    /\ res = <<>>
    /\ err = NoError
    /\ arr = <<>>
    /\ dups = <<>>

\* lines 124-150: the parameters of the first call
SyncNewStart ==
    /\ mode = "syncNew" /\ pc = "start"
    /\ LET courseTags == EncodeCourseTags(courseData.course)
           questionTagNames == KnownQuestionTagsNames(courseData.questions, <<>>)
           params == <<~hasErrors(courseData.course), courseTags, questionTagNames, CourseId>>
       IN  calls' = Append(calls, Call("sync_course_tags_new", params))
    /\ pc' = "sync_course_tags_new"
    /\ UNCHANGED <<mode, run, courseInfo, questionDB, courseData, declared, paramTags,
                   tagIdsByName, res, err, arr, dups>>

\* lines 150-170: sync_course_tags_new returned; build the map, encode the
\* questions without errors, make the second call
SyncCourseTagsNewReturn ==
    /\ mode = "syncNew" /\ pc = "sync_course_tags_new"
    /\ \E dropped \in SUBSET NewNames :
         LET newTags == NewTagsJson(calls[Len(calls)].args, dropped)
             map == ReduceNewTags(newTags, EmptyObject)
         IN  /\ res' = newTags
             /\ tagIdsByName' = map
             /\ calls' = Append(calls, Call("sync_question_tags_new",
                                            <<QuestionTagsParam(courseData.questions, map)>>))
    /\ pc' = "sync_question_tags_new"
    /\ UNCHANGED <<mode, run, courseInfo, questionDB, courseData, declared, paramTags, err, arr, dups>>

\* sqldb.callOneRowAsync / callAsync rejects: syncNew rejects with that error
SyncNewCallFails ==
    /\ mode = "syncNew" /\ pc \in {"sync_course_tags_new", "sync_question_tags_new"}
    /\ err' = Error("PropagatedError", "", <<>>)
    /\ pc' = "failed"
    /\ UNCHANGED <<mode, run, courseInfo, questionDB, courseData, declared, paramTags,
                   tagIdsByName, calls, res, arr, dups>>

\* line 170: the second call resolved, syncNew resolves
SyncQuestionTagsNewReturn ==
    /\ mode = "syncNew" /\ pc = "sync_question_tags_new"
    /\ pc' = "done"
    /\ UNCHANGED <<mode, run, courseInfo, questionDB, courseData, declared, paramTags,
                   tagIdsByName, calls, res, err, arr, dups>>

NextNew ==
    \/ SyncNewStart
    \/ SyncCourseTagsNewReturn
    \/ SyncNewCallFails
    \/ SyncQuestionTagsNewReturn

SpecNew == InitNew /\ [][NextNew]_vars

-----------------------------------------------------------------------------
(* getDuplicates and getDuplicatesByKey on their own *)

InitDup ==
    /\ mode = "getDuplicates"
    /\ pc = "start"
    /\ run = 1
    /\ courseInfo = [hasTags |-> FALSE, tags |-> <<>>, courseId |-> CourseId]
    /\ questionDB = <<>>
    /\ courseData = [course |-> [errors |-> FALSE, tags |-> <<>>], questions |-> <<>>]
    /\ declared = <<>>
    /\ paramTags = <<>>
    /\ tagIdsByName = EmptyObject
    /\ calls = <<>>
    /\ res = <<>>
    /\ err = NoError
    /\ arr \in SeqsUpTo(Names, MaxLen)
    /\ dups = <<>>

\* getDuplicates(arr)
GetDuplicatesCall ==
    /\ mode = "getDuplicates" /\ pc = "start"
    /\ dups' = getDuplicates(arr)
    /\ pc' = "getDuplicates"
    /\ UNCHANGED <<mode, run, courseInfo, questionDB, courseData, declared, paramTags,
                   tagIdsByName, calls, res, err, arr>>

\* getDuplicatesByKey(objects, 'name') on the objects {name: arr[i]}
GetDuplicatesByKeyCall ==
    /\ mode = "getDuplicates" /\ pc = "start"
    /\ dups' = getDuplicatesByKey([i \in DOMAIN arr |-> DeclaredTag(arr[i])], "name")
    /\ pc' = "getDuplicatesByKey"
    /\ UNCHANGED <<mode, run, courseInfo, questionDB, courseData, declared, paramTags,
                   tagIdsByName, calls, res, err, arr>>

NextDup ==
    \/ GetDuplicatesCall
    \/ GetDuplicatesByKeyCall

SpecDup == InitDup /\ [][NextDup]_vars

-----------------------------------------------------------------------------
(* Vocabulary of the properties *)

NamesOf(tags) == [i \in DOMAIN tags |-> tags[i].name]

\* the values that occur more than once in s
Repeated(s) == {s[i] : i \in {i \in DOMAIN s : \E j \in DOMAIN s : j # i /\ s[j] = s[i]}}

NoRepeats(s) == Repeated(s) = {}

RECURSIVE LaterOccurrences(_, _)
\* the occurrences in s of a value that occurs earlier (`before` holds the
\* values already passed), in order
LaterOccurrences(s, before) ==
    IF s = <<>> THEN <<>>
    ELSE (IF Head(s) \in before THEN <<Head(s)>> ELSE <<>>)
             \o LaterOccurrences(Tail(s), before \cup {Head(s)})

RECURSIVE FirstOccurrences(_, _)
\* the first occurrence of every value of s, in order
FirstOccurrences(s, before) ==
    IF s = <<>> THEN <<>>
    ELSE (IF Head(s) \in before THEN <<>> ELSE <<Head(s)>>)
             \o FirstOccurrences(Tail(s), before \cup {Head(s)})

\* the calls of the running invocation to procedure proc
CallsTo(proc) == SelectSeq(calls, LAMBDA c : c.proc = proc /\ c.run = run)

\* the invocation is over, or parked on its last call
Decided == pc \in {"failed", "done", "sync_question_tags", "sync_question_tags_new"}

\* the ids written for null and {} are no tag ids
NoTagId == {"null", "{}"}

-----------------------------------------------------------------------------
(* C1 *)

\* C1: in sync, when the declared tag names are unique, the tag list sent to
\* sync_course_tags is the declared tags followed by exactly one placeholder
\* (gray1, the auto-generated description) per distinct undeclared name that a
\* question references; no name occurs twice in the sent list.
C1_OnePlaceholderPerMissingName ==
    (mode = "sync" /\ pc = "sync_course_tags" /\ NoRepeats(NamesOf(declared))) =>
        LET sent == calls[Len(calls)].args[1]
            missing == Range(AllQuestionTagNames(questionDB)) \ Range(NamesOf(declared))
            n == Len(declared)
        IN  /\ Len(sent) = n + Cardinality(missing)
            /\ SubSeq(sent, 1, n)
                   = [i \in 1..n |-> <<declared[i].name, declared[i].color, declared[i].description>>]
            /\ \A i \in (n + 1)..Len(sent) :
                   /\ sent[i][1] \in missing
                   /\ sent[i][2] = "gray1"
                   /\ sent[i][3] = PlaceholderDescription
            /\ NoRepeats([i \in DOMAIN sent |-> sent[i][1]])

-----------------------------------------------------------------------------
(* C2 *)

\* C2: in sync and in syncNew, every tag id in an association payload that is
\* sent is a defined id held by the name -> id map; a referenced name without
\* an entry makes the invocation fail before the association call.
C2_AssociationIdsComeFromMap ==
    (pc \in {"sync_question_tags", "sync_question_tags_new"}) =>
        LET payload == calls[Len(calls)].args[1]
        IN  \A i \in DOMAIN payload : \A j \in DOMAIN payload[i][2] :
                /\ payload[i][2][j] \notin NoTagId
                /\ payload[i][2][j] \in Range(tagIdsByName)

-----------------------------------------------------------------------------
(* C3 *)

\* C3: in sync, if two entries of courseInfo.tags share a name the invocation
\* fails with the duplicate-names error listing every duplicated name and no
\* procedure is called; if all names are distinct the check does not fail.
C3_DuplicateCourseTagNames ==
    (mode = "sync" /\ pc # "start") =>
        IF NoRepeats(NamesOf(declared))
          THEN err.kind # "DuplicateTagNames"
          ELSE /\ pc = "failed"
               /\ err.kind = "DuplicateTagNames"
               /\ Repeated(NamesOf(declared)) \subseteq Range(err.names)
               /\ CallsTo("sync_course_tags") = <<>>
               /\ CallsTo("sync_question_tags") = <<>>

-----------------------------------------------------------------------------
(* C4 *)

\* the names this model lets a JS object inherit do not occur in the input
PlainInput ==
    /\ Range(NamesOf(declared)) \cap ObjectPrototypeKeys = {}
    /\ Range(AllQuestionTagNames(questionDB)) \cap ObjectPrototypeKeys = {}

\* C4 as stated: in sync, every question that lists a tag name twice makes the
\* invocation fail with an error naming that question and the duplicated
\* names, and sync_question_tags is never called. (Stated here for inputs
\* without inherited names and runs in which no procedure call is rejected and
\* sync_course_tags returns one id per tuple.)
C4_Original_ErrorNamesEveryDuplicateQuestion ==
    (mode = "sync" /\ Decided /\ PlainInput /\ Len(res) = Len(paramTags)
         /\ err.kind \notin {"PropagatedError", "TypeError"}) =>
        \A i \in DOMAIN questionDB :
            ~NoRepeats(questionDB[i].tags) =>
                /\ pc = "failed"
                /\ err.qid = questionDB[i].qid
                /\ Repeated(questionDB[i].tags) \subseteq Range(err.names)
                /\ CallsTo("sync_question_tags") = <<>>

\* an earlier check ended the invocation before question i's duplicate check
EndedBefore(i) ==
    \/ err.kind \in {"DuplicateTagNames", "PropagatedError", "TypeError"}
    \/ /\ err.kind \in {"UnknownTags", "DuplicateTags"}
       /\ \E j \in 1..(i - 1) : err.qid = questionDB[j].qid
    \/ err.kind = "UnknownTags" /\ err.qid = questionDB[i].qid

\* C4 (amended): in sync, a question that lists a tag name twice makes the
\* invocation fail, and sync_question_tags is never called; the error is the
\* duplicate-tags error naming that question and its duplicated names unless
\* an earlier check ended the invocation first.
C4_DuplicateQuestionTagsFail ==
    (mode = "sync" /\ Decided) =>
        \A i \in DOMAIN questionDB :
            ~NoRepeats(questionDB[i].tags) =>
                /\ pc = "failed"
                /\ CallsTo("sync_question_tags") = <<>>
                /\ ~EndedBefore(i) =>
                       /\ err.kind = "DuplicateTags"
                       /\ err.qid = questionDB[i].qid
                       /\ Repeated(questionDB[i].tags) \subseteq Range(err.names)

\* a valid first question, then one that repeats a declared name: the error
\* names the second question
C4_Witness ==
    /\ mode = "sync" /\ pc = "failed" /\ run = 1
    /\ Len(questionDB) = 2
    /\ questionDB[1].tags = <<"x">>
    /\ questionDB[2].tags = <<"y", "y">>
    /\ err = Error("DuplicateTags", "q2", <<"y">>)
    /\ Len(CallsTo("sync_course_tags")) = 1

-----------------------------------------------------------------------------
(* C5 *)

\* C5: syncNew calls sync_course_tags_new with (courseValid, declaredTags,
\* referencedNames, courseId); courseValid is true exactly when the course has
\* no errors; with errors declaredTags is empty; without errors it holds one
\* [name, description, color] tuple per declared tag, in declaration order.
C5_CourseValidityGating ==
    (mode = "syncNew" /\ pc # "start") =>
        LET args == calls[1].args
            course == courseData.course
        IN  /\ calls[1].proc = "sync_course_tags_new"
            /\ Len(args) = 4
            /\ args[1] = (~course.errors)
            /\ args[4] = CourseId
            /\ course.errors => args[2] = <<>>
            /\ ~course.errors =>
                   /\ Len(args[2]) = Len(course.tags)
                   /\ \A i \in DOMAIN course.tags :
                          args[2][i] = <<course.tags[i].name, course.tags[i].description,
                                         course.tags[i].color>>

\* a course file with errors that still carries tags: nothing of them is sent
C5_Witness ==
    /\ mode = "syncNew" /\ pc = "sync_course_tags_new"
    /\ courseData.course.errors
    /\ Len(courseData.course.tags) = 2
    /\ calls[1].args[1] = FALSE
    /\ calls[1].args[2] = <<>>

-----------------------------------------------------------------------------
(* C6 *)

ValidQuestions == SelectSeq(courseData.questions, LAMBDA q : ~q.errors)

-----------------------------------------------------------------------------
(* C7 *)

\* C7: in syncNew a repeated tag name in a question never makes the invocation
\* fail, and the association entry of a question without errors holds one id
\* per distinct tag name of the question, the id the map has for that name, in
\* order of first occurrence.
C7_SilentDeduplication ==
    (mode = "syncNew") =>
        /\ err.kind \in {"none", "PropagatedError"}
        /\ Len(calls) >= 2 =>
               LET payload == calls[2].args[1]
               IN  /\ Len(payload) = Len(ValidQuestions)
                   /\ \A i \in DOMAIN ValidQuestions :
                          LET names == FirstOccurrences(ValidQuestions[i].tags, {})
                              ids == payload[i][2]
                          IN  /\ Len(ids) = Len(names)
                              /\ \A j \in DOMAIN names :
                                     names[j] \in DOMAIN tagIdsByName =>
                                         ids[j] = tagIdsByName[names[j]]

\* a question x, constructor, x whose entry holds the two ids once each
C7_Witness ==
    /\ mode = "syncNew" /\ pc = "done"
    /\ Len(courseData.questions) = 1
    /\ ~courseData.questions[1].errors
    /\ courseData.questions[1].tags = <<"x", "constructor", "x">>
    /\ DOMAIN tagIdsByName = {"x", "constructor"}
    /\ calls[2].args[1][1][2] = <<tagIdsByName["x"], tagIdsByName["constructor"]>>

-----------------------------------------------------------------------------
(* C8 *)

\* C8: in sync the tuple sent at index i is (name, color, description) of tag
\* i, and when sync_course_tags returns one id per tuple the map built from
\* the result maps the name of tag i to the i-th returned id.
C8_PositionalRoundTrip ==
    (mode = "sync" /\ pc \in {"sync_question_tags", "done", "failed"}
         /\ CallsTo("sync_course_tags") # <<>>) =>
        LET sent == CallsTo("sync_course_tags")[1].args[1]
        IN  /\ courseInfo.hasTags =>
                   /\ Len(sent) = Len(courseInfo.tags)
                   /\ \A i \in DOMAIN sent :
                          sent[i] = <<courseInfo.tags[i].name, courseInfo.tags[i].color,
                                      courseInfo.tags[i].description>>
            /\ (Len(res) = Len(sent) /\ err.kind # "PropagatedError") =>
                   \A i \in DOMAIN sent : JsGet(tagIdsByName, sent[i][1]) = res[i]

-----------------------------------------------------------------------------
(* C9 *)

\* C9: getDuplicates(S) is the subsequence of S of every occurrence that is not
\* the first of its value; its length is len(S) minus the number of distinct
\* values, each element of it occurs at least twice in S, it is empty exactly
\* when S has no repeated value; getDuplicatesByKey agrees with it.
C9_DuplicatesAreLaterOccurrences ==
    (mode = "getDuplicates" /\ pc # "start") =>
        /\ dups = LaterOccurrences(arr, {})
        /\ Len(dups) = Len(arr) - Cardinality(Range(arr))
        /\ Range(dups) \subseteq Repeated(arr)
        /\ (dups = <<>>) <=> NoRepeats(arr)

-----------------------------------------------------------------------------
(* C10 *)

FirstRunTagCalls == SelectSeq(calls, LAMBDA c : c.proc = "sync_course_tags" /\ c.run = 1)

\* C10: after a sync invocation that reached the sync_course_tags call, a
\* second invocation with the same courseInfo and questionDB passes the
\* duplicate-name check and sends the same tag tuples to sync_course_tags.
\* (Stated here for inputs without inherited names, where getDuplicates
\* reports true repeats only.)
C10_SecondSyncSendsSameTags ==
    (mode = "sync" /\ run = 2 /\ pc # "start" /\ FirstRunTagCalls # <<>>
         /\ Range(AllQuestionTagNames(questionDB)) \cap ObjectPrototypeKeys = {}
         /\ Range(NamesOf(TagsOf(courseInfo))) \cap ObjectPrototypeKeys = {}) =>
        /\ err.kind # "DuplicateTagNames"
        /\ CallsTo("sync_course_tags") # <<>>
        /\ CallsTo("sync_course_tags")[1].args[1] = FirstRunTagCalls[1].args[1]

====
